---- MODULE Spec2Model ----
(***************************************************************************)
(* A model of the data-driven low-voltage state estimator (ddse): the      *)
(* SQLite store (grids, meters, measurements), the three HTTP handlers,    *)
(* and the estimation algorithm (interval check, aligner, lag builder,     *)
(* least-squares fit, predictor).                                          *)
(*                                                                         *)
(* Conventions.                                                            *)
(*  - A timestamp is an integer number of minutes; the store keeps the     *)
(*    isoformat text of a timestamp, whose text order is the order of the  *)
(*    minutes for timestamps written in one format and one UTC offset.     *)
(*  - A meter id is an integer; sorted() on ids is the integer order.      *)
(*  - A cell of a numpy array is a tagged tuple: None (a Python None in an *)
(*    object array), NaN, Num(n) (a float, n an integer), or a term built  *)
(*    from the arithmetic the code applies to the result of lstsq.         *)
(*  - A call returns Ok(value) or Err(exception name).                     *)
(***************************************************************************)
EXTENDS Integers, Sequences, FiniteSets, TLC

VARIABLES
    tables,        \* the tables that exist in the SQLite file
    grids,         \* rows of table grids
    meters,        \* rows of table meters
    measurements,  \* rows of table measurements
    pc,            \* "idle", or "responded" while a response is being returned
    req,           \* the request being answered
    resp,          \* the handler's outcome for req
    frame,         \* the locals of get_voltage_measurements when it ended
    call,          \* a direct call of a function of the algorithm
    ret            \* what that call returned

vars == <<tables, grids, meters, measurements, pc, req, resp, frame, call, ret>>
store == <<tables, grids, meters, measurements>>

---------------------------------------------------------------------------
(* Values and outcomes *)

None == <<"none">>
NaN == <<"nan">>
Num(n) == <<"num", n>>
IsNum(v) == v[1] = "num"

Ok(v) == [st |-> "ok", val |-> v]
Err(e) == [st |-> "err", err |-> e]
Pending == [st |-> "pending"]
NoCall == [fn |-> "none"]

\* C's double from a Python object: None becomes NaN, a float stays.
ToFloat_zero(v) == IF v = None THEN Num(0) ELSE v

ToFloat(v) == IF v = None THEN NaN ELSE v

Range(s) == {s[i] : i \in DOMAIN s}

\* An array held in memory: the sequence s with its elements computed.
Arr(s) == s \o <<>>

\* sorted(S): the elements of a finite set of integers in ascending order,
\* computed by halving the interval [lo, hi] that holds them.
RECURSIVE SortedBetween(_, _, _)
SortedBetween(S, lo, hi) ==
    IF S = {} THEN <<>>
    ELSE IF lo = hi THEN <<lo>>
    ELSE LET mid == (lo + hi) \div 2
         IN SortedBetween({x \in S : x <= mid}, lo, mid)
            \o SortedBetween({x \in S : x > mid}, mid + 1, hi)

\* The least lo + w * 2^k that no element of S exceeds.
RECURSIVE UpperBound(_, _, _)
UpperBound(S, lo, w) ==
    IF {x \in S : x > lo + w} = {} THEN lo + w ELSE UpperBound(S, lo, 2 * w)

SortedSeq(S) ==
    IF S = {} THEN <<>>
    ELSE LET lo == CHOOSE x \in S : \A y \in S : x <= y
         IN SortedBetween(S, lo, UpperBound(S, lo, 1))

---------------------------------------------------------------------------
(* Interval validator: beta_computation.py *)

\* check_intervals: the loop returns inside its first iteration, so the
\* result is the first delta; with fewer than two timestamps the loop body
\* never runs and the function falls off its end (None).
check_intervals(timestamps) ==
    IF Len(timestamps) < 2 THEN None
    ELSE Num(timestamps[2] - timestamps[1])

\* int(x / y) of Python: the quotient truncated toward zero.
TruncDiv(x, y) ==
    IF (x >= 0) = (y > 0) THEN (IF x >= 0 THEN x ELSE -x) \div (IF y > 0 THEN y ELSE -y)
    ELSE -((IF x >= 0 THEN x ELSE -x) \div (IF y > 0 THEN y ELSE -y))

MinutesPerDay == 1440

number_daily_meas(delta) ==
    IF delta = None THEN Err("TypeError")
    ELSE IF delta[2] = 0 THEN Err("ZeroDivisionError")
    ELSE Ok(TruncDiv(MinutesPerDay, delta[2]))

\* state_estimation.py line 76: number_daily_meas(check_intervals(...)).
validate_interval(timestamps) == number_daily_meas(check_intervals(timestamps))

---------------------------------------------------------------------------
(* Measurement aligner: state_estimation_db_helper.py *)

\* A dict is a function; {} is the empty function <<>>.
DictGet(d, k, default) == IF k \in DOMAIN d THEN d[k] ELSE default

\* The loop of organize_measurements_by_meter over rows[lo..hi], in the
\* order the query returned them: each row adds its timestamp to the set and
\* writes meter_data[meter][ts], a later row overwriting an earlier one.  The
\* loop is a fold of dict updates; it is evaluated by halves, the right half
\* overriding the left.
RECURSIVE OrganizeRows(_, _, _)
OrganizeRows(rows, lo, hi) ==
    IF lo > hi THEN <<<<>>, {}>>
    ELSE IF lo = hi
    THEN <<(rows[lo].meter_id :> (rows[lo].timestamp :> rows[lo].v_measured)),
           {rows[lo].timestamp}>>
    ELSE LET mid == (lo + hi) \div 2
             l == OrganizeRows(rows, lo, mid)
             r == OrganizeRows(rows, mid + 1, hi)
         IN <<[m \in DOMAIN l[1] \cup DOMAIN r[1] |->
                 IF m \notin DOMAIN l[1] THEN r[1][m]
                 ELSE IF m \notin DOMAIN r[1] THEN l[1][m]
                 ELSE r[1][m] @@ l[1][m]],
              l[2] \cup r[2]>>

organize_measurements_by_meter(rows) ==
    LET r == OrganizeRows(rows, 1, Len(rows))
    IN [meter_data |-> r[1], sorted_timestamps |-> SortedSeq(r[2])]

\* build_voltage_matrix with absent cells filled with 0.0 instead of None.
build_voltage_matrix_zero_fill(meter_ids, meter_data, timestamps) ==
    Arr([r \in 1..Len(meter_ids) |->
        LET of_meter == DictGet(meter_data, meter_ids[r], <<>>)
            seen == DOMAIN of_meter
        IN Arr([c \in 1..Len(timestamps) |->
                  IF timestamps[c] \in seen THEN of_meter[timestamps[c]] ELSE Num(0)])])

\* One row per meter id, one cell per timestamp: the float of the record,
\* or None for an absent cell.  The result of np.asarray on the list of
\* rows: with no meter id it is the one-dimensional empty array, <<>>.
build_voltage_matrix(meter_ids, meter_data, timestamps) ==
    Arr([r \in 1..Len(meter_ids) |->
        LET of_meter == DictGet(meter_data, meter_ids[r], <<>>)
            seen == DOMAIN of_meter
        IN Arr([c \in 1..Len(timestamps) |->
                  IF timestamps[c] \in seen THEN of_meter[timestamps[c]] ELSE None])])

---------------------------------------------------------------------------
(* Lag builder and regression fitter: beta_pred of beta_computation.py *)

\* A two-dimensional array is a sequence of rows; the empty sequence is the
\* one-dimensional empty array np.asarray([]).
IsObjectArray(m) == \E r \in DOMAIN m : \E c \in DOMAIN m[r] : m[r][c] = None

Max(a, b) == IF a >= b THEN a ELSE b

\* The literal 48 of lines 63 and 64 (48 * 7).
FixedDailyMeas == 48

\* Lines 62-64.  The array has n_times + daily_meas*7 columns; columns
\* [0, 48*7) become NaN and columns [48*7, end) receive volt_uknown, which
\* numpy accepts when the widths agree or volt_uknown has one column (it is
\* then broadcast); None cells become NaN in the float array.
v_extended(volt_uknown, daily_meas) ==
    LET U == Len(volt_uknown)
        n_times == Len(volt_uknown[1])
        L == n_times + daily_meas * 7
        W == Max(0, L - FixedDailyMeas * 7)
    IN IF L < 0 THEN Err("ValueError")
       ELSE IF ~(n_times = W \/ n_times = 1) THEN Err("ValueError")
       ELSE Ok(Arr([u \in 1..U |->
                 Arr([c \in 1..L |->
                    IF c <= FixedDailyMeas * 7 THEN NaN
                    ELSE ToFloat(volt_uknown[u][IF n_times = 1 THEN 1
                                                ELSE c - FixedDailyMeas * 7])])]))

\* np.roll(row, shift) along the time axis: element c moves to c + shift,
\* modulo the length.
Roll(row, shift) ==
    LET L == Len(row)
    IN Arr([c \in 1..L |-> row[((c - 1 - shift) % L) + 1]])

\* row[start:] of Python for a start >= 0 or < 0.
SliceFrom(row, start) ==
    LET L == Len(row)
        s == IF start >= 0 THEN (IF start > L THEN L ELSE start)
             ELSE Max(0, L + start)
    IN Arr([c \in 1..(L - s) |-> row[s + c]])

\* Lines 67-69: the three lag channels, indexed [channel][meter][column].
LagDays == <<1, 2, 7>>

previous_v_data(ext, daily_meas) ==
    Arr([k \in 1..3 |->
        Arr([u \in 1..Len(ext) |->
            SliceFrom(Roll(ext[u], daily_meas * LagDays[k]), daily_meas * 7)])])

\* Lines 72-74: regressors indexed [channel][meter][column]; the known rows
\* are repeated for every unknown meter and stored as floats.
v_data_regr(lags, volt_known, U) ==
    LET known == Arr([k \in DOMAIN volt_known |->
                        Arr([c \in DOMAIN lags[1][1] |->
                               ToFloat(volt_known[k][IF Len(volt_known[k]) = 1 THEN 1 ELSE c])])])
    IN Arr([r \in 1..(3 + Len(volt_known)) |->
          Arr([u \in 1..U |-> IF r <= 3 THEN lags[r][u] ELSE known[r - 3]])])

\* np.linalg.lstsq(a, b)[0] for a of shape (m, n).  With no row the result
\* is the zero vector.  A NaN in the system either raises LinAlgError or
\* yields NaN coefficients, depending on the LAPACK build (lapack).
\* Otherwise coefficient k is the term lstsq(k, a, b).
lstsq(a, b, n, lapack) ==
    IF Len(a) = 0 THEN Ok([k \in 1..n |-> Num(0)])
    ELSE IF (\E r \in DOMAIN a : NaN \in Range(a[r])) \/ NaN \in Range(b)
         THEN IF lapack = "raise" THEN Err("LinAlgError")
              ELSE Ok([k \in 1..n |-> NaN])
    ELSE Ok([k \in 1..n |-> <<"lstsq", k, a, b>>])

\* The design matrix without the cut at column daily_meas*7.
DesignMatrix_no_cut(regr, i, daily_meas) ==
    LET cols == Arr([r \in DOMAIN regr |-> SliceFrom(regr[r][i], 0)])
    IN Arr([t \in 1..Len(cols[1]) |-> Arr([r \in DOMAIN regr |-> cols[r][t]])])

\* Lines 81-89 for unknown meter i: the design matrix (one row per training
\* column) and the target, both cut at column daily_meas*7.
DesignMatrix(regr, i, daily_meas) ==
    LET cols == Arr([r \in DOMAIN regr |-> SliceFrom(regr[r][i], daily_meas * 7)])
    IN Arr([t \in 1..Len(cols[1]) |-> Arr([r \in DOMAIN regr |-> cols[r][t]])])

TargetVector(volt_uknown, i, daily_meas) ==
    SliceFrom(volt_uknown[i], daily_meas * 7)

FitMeter(regr, volt_uknown, i, daily_meas, lapack) ==
    IF IsObjectArray(volt_uknown) THEN Err("UFuncTypeError")
    ELSE lstsq(DesignMatrix(regr, i, daily_meas),
               TargetVector(volt_uknown, i, daily_meas),
               Len(regr), lapack)

\* beta_pred with the locals the claims speak about: v_extended,
\* previous_v_data and, per unknown meter, the operands of lstsq (training).
\* beta is indexed [regressor][meter].
BetaPredRun(volt_known, volt_uknown, daily_meas, lapack) ==
    LET none == [out |-> Pending, v_extended |-> <<>>, previous_v_data |-> <<>>,
                 training |-> <<>>]
    IN IF volt_uknown = <<>> THEN [none EXCEPT !.out = Err("ValueError")]
       ELSE IF volt_known = <<>> THEN [none EXCEPT !.out = Err("IndexError")]
       ELSE
       LET U == Len(volt_uknown)
           n_times == Len(volt_uknown[1])
           K == Len(volt_known)
           ext == v_extended(volt_uknown, daily_meas)
       IN IF ext.st = "err" THEN [none EXCEPT !.out = ext]
          ELSE
          LET lags == previous_v_data(ext.val, daily_meas)
              done == [none EXCEPT !.v_extended = ext.val, !.previous_v_data = lags]
          IN IF \E k \in 1..K : Len(volt_known[k]) \notin {n_times, 1}
             THEN [done EXCEPT !.out = Err("ValueError")]
             ELSE
             LET regr == v_data_regr(lags, volt_known, U)
                 fits == Arr([i \in 1..U |-> FitMeter(regr, volt_uknown, i, daily_meas, lapack)])
                 fed == [done EXCEPT !.training =
                            [i \in 1..U |-> [a |-> DesignMatrix(regr, i, daily_meas),
                                             b |-> TargetVector(volt_uknown, i, daily_meas)]]]
             IN IF \E i \in 1..U : fits[i].st = "err"
                THEN [fed EXCEPT !.out =
                        fits[CHOOSE i \in 1..U : fits[i].st = "err" /\ \A j \in 1..(i - 1) : fits[j].st = "ok"]]
                ELSE [fed EXCEPT !.out =
                        Ok([r \in 1..(3 + K) |-> [i \in 1..U |-> fits[i].val[r]]])]

beta_pred(volt_known, volt_uknown, daily_meas, lapack) ==
    BetaPredRun(volt_known, volt_uknown, daily_meas, lapack).out

---------------------------------------------------------------------------
(* Predictor: v_pred of beta_computation.py *)

\* Float arithmetic: NaN absorbs; two numbers are multiplied or added; an
\* lstsq coefficient leaves a term.
Mul(a, b) ==
    IF a = NaN \/ b = NaN THEN NaN
    ELSE IF IsNum(a) /\ IsNum(b) THEN Num(a[2] * b[2])
    ELSE <<"mul", a, b>>

Add(a, b) ==
    IF a = NaN \/ b = NaN THEN NaN
    ELSE IF IsNum(a) /\ IsNum(b) THEN Num(a[2] + b[2])
    ELSE <<"add", a, b>>

\* np.dot of two vectors of one length: the sum of the products, from the
\* first position on.
RECURSIVE DotUpTo(_, _, _)
DotUpTo(x, y, n) ==
    IF n = 0 THEN Num(0)
    ELSE IF n = 1 THEN Mul(x[1], y[1])
    ELSE Add(DotUpTo(x, y, n - 1), Mul(x[n], y[n]))

Dot(x, y) == DotUpTo(x, y, Len(x))

\* Lines 123-125: the regressor vector of unknown meter i; the lag cells are
\* stored into a float array (None becomes NaN).
Indep(exc_voltages, actual_volt, i) ==
    [k \in 1..(3 + Len(actual_volt)) |->
        IF k <= 3 THEN ToFloat(exc_voltages[k][i]) ELSE ToFloat(actual_volt[k - 3])]

Column(beta, i) == [r \in 1..Len(beta) |-> beta[r][i]]

\* v_pred multiplying every meter's regressors with the first coefficient
\* column.
v_pred_first_column(exc_voltages, actual_volt, beta) ==
    LET U == Len(exc_voltages[1])
        K == Len(actual_volt)
    IN IF U = 0 THEN Ok(<<>>)
       ELSE IF Len(beta[1]) = 0 THEN Err("IndexError")
       ELSE IF Len(beta) # 3 + K THEN Err("ValueError")
       ELSE IF Len(beta[1]) < U THEN Err("IndexError")
       ELSE Ok([i \in 1..U |-> Dot(Indep(exc_voltages, actual_volt, i), Column(beta, 1))])

\* exc_voltages has three rows (one per lag), beta one row per regressor.
\* The loop fails at its first meter when beta has no column or when beta's
\* row count is not 3 + K (np.dot: shapes not aligned), and at meter i when
\* beta has fewer than i columns.
v_pred(exc_voltages, actual_volt, beta) ==
    LET U == Len(exc_voltages[1])
        K == Len(actual_volt)
    IN IF U = 0 THEN Ok(<<>>)
       ELSE IF Len(beta[1]) = 0 THEN Err("IndexError")
       ELSE IF Len(beta) # 3 + K THEN Err("ValueError")
       ELSE IF Len(beta[1]) < U THEN Err("IndexError")
       ELSE Ok([i \in 1..U |-> Dot(Indep(exc_voltages, actual_volt, i), Column(beta, i))])

---------------------------------------------------------------------------
(* The SQLite store and the queries of state_estimation_db_helper.py *)

\* A query on a missing table that finds no row instead of failing.
HasTable_always(t) == TRUE

\* sqlite3.OperationalError: no such table.
HasTable(t) == t \in tables

\* SELECT meter_id FROM meters WHERE grid_id = ?
get_all_grid_meter_ids(grid_id) ==
    {row.meter_id : row \in {r \in meters : r.grid_id = grid_id}}

\* SELECT meter_id, timestamp, v_measured FROM measurements
\* WHERE meter_id IN (...): the rows in table order, the REAL as a float.
get_all_voltage_measurements(meter_ids) ==
    LET hit == SelectSeq(measurements, LAMBDA row : row.meter_id \in Range(meter_ids))
    IN [i \in DOMAIN hit |->
          [meter_id |-> hit[i].meter_id, timestamp |-> hit[i].timestamp,
           v_measured |-> Num(hit[i].v_measured)]]

\* The lookup with the columns in the reverse of the order of excluded_ids.
get_excluded_voltages_reversed(excluded_ids, timestamps) ==
    [k \in DOMAIN timestamps |->
        LET hit == SelectSeq(measurements,
                       LAMBDA row : row.meter_id \in Range(excluded_ids)
                                    /\ row.timestamp = timestamps[k])
            results == [m \in {hit[i].meter_id : i \in DOMAIN hit} |->
                          Num((CHOOSE row \in Range(hit) : row.meter_id = m).v_measured)]
        IN [u \in DOMAIN excluded_ids |->
              DictGet(results, excluded_ids[Len(excluded_ids) + 1 - u], None)]]

\* One query per lookup instant; results.get(meter, None) per excluded id.
get_excluded_voltages_at_timestamps(excluded_ids, timestamps) ==
    [k \in DOMAIN timestamps |->
        LET hit == SelectSeq(measurements,
                       LAMBDA row : row.meter_id \in Range(excluded_ids)
                                    /\ row.timestamp = timestamps[k])
            results == [m \in {hit[i].meter_id : i \in DOMAIN hit} |->
                          Num((CHOOSE row \in Range(hit) : row.meter_id = m).v_measured)]
        IN [u \in DOMAIN excluded_ids |-> DictGet(results, excluded_ids[u], None)]]

\* The first measurement's voltage of every entry of the request, in the
\* order of the request.
extract_input_voltages(data) ==
    IF \E e \in DOMAIN data.historical : data.historical[e].measurements = <<>>
    THEN Err("IndexError")
    ELSE Ok([e \in DOMAIN data.historical |->
                Num(data.historical[e].measurements[1].v_measured)])

---------------------------------------------------------------------------
(* POST /se/voltages: get_voltage_measurements of routers/state_estimation.py *)

Unset == <<"unset">>

NoFrame ==
    [included_ids |-> Unset, excluded_ids |-> Unset,
     sorted_timestamps |-> Unset,
     included_voltages |-> Unset, excluded_voltages |-> Unset,
     daily_measurements |-> Unset, beta_matr |-> Unset,
     excluded_previous_voltages |-> Unset, included_actual_voltages |-> Unset,
     v_pred |-> Unset,
     step |-> "none"]

MinutesOfDays(d) == d * MinutesPerDay

\* The handler from line 54 to line 100: the response (Ok(predictions), or
\* Err(e) for the HTTPException raised from exception e) and the locals;
\* step names the last step that completed.
VoltagesRun(data, lapack) ==
    LET input_meter_ids == {data.historical[e].meter_id : e \in DOMAIN data.historical}
    IN
    IF input_meter_ids = {} THEN [out |-> Ok(<<>>), frame |-> NoFrame]
    ELSE IF ~HasTable("meters") THEN [out |-> Err("OperationalError"), frame |-> NoFrame]
    ELSE
    LET all_grid_meter_ids == get_all_grid_meter_ids(data.grid_id)
        included_ids == SortedSeq(input_meter_ids \cap all_grid_meter_ids)
        excluded_ids == SortedSeq(all_grid_meter_ids \ input_meter_ids)
        all_ids == included_ids \o excluded_ids
        f1 == [NoFrame EXCEPT !.included_ids = included_ids, !.excluded_ids = excluded_ids,
                             !.step = "ids"]
    IN
    IF all_ids = <<>> THEN [out |-> Ok(<<>>), frame |-> f1]
    ELSE IF ~HasTable("measurements") THEN [out |-> Err("OperationalError"), frame |-> f1]
    ELSE
    LET organized == organize_measurements_by_meter(get_all_voltage_measurements(all_ids))
        meter_data == organized.meter_data
        sorted_timestamps == organized.sorted_timestamps
        included_voltages == build_voltage_matrix(included_ids, meter_data, sorted_timestamps)
        excluded_voltages == build_voltage_matrix(excluded_ids, meter_data, sorted_timestamps)
        f2 == [f1 EXCEPT !.sorted_timestamps = sorted_timestamps,
                         !.included_voltages = included_voltages,
                         !.excluded_voltages = excluded_voltages,
                         !.step = "aligned"]
        daily == validate_interval(sorted_timestamps)
    IN
    IF daily.st = "err" THEN [out |-> daily, frame |-> f2]
    ELSE
    LET beta == beta_pred(included_voltages, excluded_voltages, daily.val, lapack)
        f3 == [f2 EXCEPT !.daily_measurements = daily.val, !.step = "validated"]
    IN
    IF beta.st = "err" THEN [out |-> beta, frame |-> f3]
    ELSE IF data.historical[1].measurements = <<>>
    THEN [out |-> Err("IndexError"),
          frame |-> [f3 EXCEPT !.beta_matr = beta.val, !.step = "fitted"]]
    ELSE
    LET ref_timestamp == data.historical[1].measurements[1].timestamp
        lookup_dates == [k \in 1..3 |-> ref_timestamp - MinutesOfDays(LagDays[k])]
        excluded_previous_voltages ==
            get_excluded_voltages_at_timestamps(excluded_ids, lookup_dates)
        actual == extract_input_voltages(data)
        f4 == [f3 EXCEPT !.beta_matr = beta.val,
                         !.excluded_previous_voltages = excluded_previous_voltages,
                         !.step = "looked_up"]
    IN
    IF actual.st = "err" THEN [out |-> actual, frame |-> f4]
    ELSE
    LET pred == v_pred(excluded_previous_voltages, actual.val, beta.val)
        f5 == [f4 EXCEPT !.included_actual_voltages = actual.val, !.step = "extracted"]
    IN
    IF pred.st = "err" THEN [out |-> pred, frame |-> f5]
    ELSE [out |-> Ok([u \in DOMAIN excluded_ids |->
                        [meter_id |-> excluded_ids[u], v_predicted |-> pred.val[u]]]),
          frame |-> [f5 EXCEPT !.v_pred = pred.val, !.step = "predicted"]]

---------------------------------------------------------------------------
(* POST /grid and POST /historical: the saving handlers *)

\* insert_grid_data without the DELETE of the grid's old meters: an old meter
\* that is listed again clashes, the others stay.
SaveGridRun_no_delete(data) ==
    LET grid_row == [grid_id |-> data.grid_id, resolution |-> data.resolution]
        replaced == {g \in grids : g.grid_id # data.grid_id} \cup {grid_row}
        inserted == {[meter_id |-> data.meters[i], grid_id |-> data.grid_id] :
                        i \in DOMAIN data.meters}
        clash == \/ \E i, j \in DOMAIN data.meters : i < j /\ data.meters[i] = data.meters[j]
                 \/ inserted \cap meters # {}
    IN IF clash
       THEN [out |-> Err("IntegrityError"), grids |-> grids, meters |-> meters]
       ELSE [out |-> Ok("Grid data saved successfully"),
             grids |-> replaced, meters |-> meters \cup inserted]

\* insert_grid_data inside save_grid_data's connection.  init_grid_db's
\* CREATE TABLE IF NOT EXISTS run outside any transaction and stay; the
\* INSERT OR REPLACE, the DELETE and the INSERTs are one transaction, which
\* a failing INSERT (a repeated meter id: the primary key is meter_id,
\* grid_id) rolls back.
SaveGridRun(data) ==
    LET grid_row == [grid_id |-> data.grid_id, resolution |-> data.resolution]
        replaced == {g \in grids : g.grid_id # data.grid_id} \cup {grid_row}
        kept == {m \in meters : m.grid_id # data.grid_id}
        inserted == {[meter_id |-> data.meters[i], grid_id |-> data.grid_id] :
                        i \in DOMAIN data.meters}
        clash == \E i, j \in DOMAIN data.meters : i < j /\ data.meters[i] = data.meters[j]
    IN IF clash
       THEN [out |-> Err("IntegrityError"), grids |-> grids, meters |-> meters]
       ELSE [out |-> Ok("Grid data saved successfully"),
             grids |-> replaced, meters |-> kept \cup inserted]

\* The rows insert_historical_measurements inserts, in order.
RECURSIVE PayloadRows(_)
PayloadRows(historical) ==
    IF historical = <<>> THEN <<>>
    ELSE LET entry == Head(historical)
         IN [i \in DOMAIN entry.measurements |->
                [meter_id |-> entry.meter_id,
                 timestamp |-> entry.measurements[i].timestamp,
                 v_measured |-> entry.measurements[i].v_measured]]
            \o PayloadRows(Tail(historical))

Key(row) == <<row.meter_id, row.timestamp>>

\* insert_historical_measurements committing row by row: the rows before
\* the first failing one stay.
SaveHistoricalRun_partial(data) ==
    LET rows == PayloadRows(data.historical)
        stored == {Key(measurements[i]) : i \in DOMAIN measurements}
        fails(i) == Key(rows[i]) \in stored \/ \E j \in 1..(i - 1) : Key(rows[j]) = Key(rows[i])
        bad == {i \in DOMAIN rows : fails(i)}
        first == CHOOSE i \in bad : \A j \in bad : i <= j
    IN IF bad # {}
       THEN [out |-> Err("IntegrityError"),
             measurements |-> measurements \o SubSeq(rows, 1, first - 1)]
       ELSE [out |-> Ok("Historical grid data saved successfully"),
             measurements |-> measurements \o rows]

\* One transaction: a row whose (meter_id, timestamp) is already stored, or
\* was inserted earlier by the same request, fails and rolls everything back.
SaveHistoricalRun(data) ==
    LET rows == PayloadRows(data.historical)
        stored == {Key(measurements[i]) : i \in DOMAIN measurements}
        new == {Key(rows[i]) : i \in DOMAIN rows}
        clash == new \cap stored # {} \/ Cardinality(new) < Len(rows)
    IN IF clash
       THEN [out |-> Err("IntegrityError"), measurements |-> measurements]
       ELSE [out |-> Ok("Historical grid data saved successfully"),
             measurements |-> measurements \o rows]

---------------------------------------------------------------------------
(* Requests *)

MaxMeter == 3
Meters == 1..MaxMeter
GridIds == {1, 2}

\* Training columns stored beyond the 48*7 columns of the warm-up.
MaxTrain == 2
HistLen == FixedDailyMeas * 7 + MaxTrain

\* Voltages that name their cell: meter m, sample j.
Volt(m, j) == 1000 * m + j

HistEntry(m, n, step) ==
    [meter_id |-> m,
     measurements |-> [j \in 1..n |-> [timestamp |-> (j - 1) * step, v_measured |-> Volt(m, j)]]]

Hist(first, n, step) ==
    [historical |-> [k \in 1..(MaxMeter - first + 1) |-> HistEntry(first + k - 1, n, step)]]

HistPayloads ==
    { Hist(1, HistLen, 30), Hist(2, HistLen, 30), Hist(1, 3, 30), Hist(1, 3, 15),
      [historical |-> <<>>],
      [historical |-> <<[meter_id |-> 1,
                         measurements |-> <<[timestamp |-> 0, v_measured |-> Volt(1, 1)],
                                            [timestamp |-> 0, v_measured |-> Volt(1, 2)]>>]>>] }

\* Grid 1 with its first 2..MaxMeter meters, or with a repeated meter; grid 2
\* with meters 1 and 2.
GridPayloads ==
    { [grid_id |-> 1, resolution |-> 30, meters |-> ms] :
        ms \in {SortedSeq(1..n) : n \in 2..MaxMeter} \cup {<<2, 2>>} }
    \cup
    { [grid_id |-> 2, resolution |-> 30, meters |-> <<1, 2>>] }

\* The instant of the newest stored sample of a long history, and a week later.
NewestTimestamp == (HistLen - 1) * 30

ReqVolt(m) == 500 + m

\* Requests naming no meter, one meter, or two meters in either order, with
\* repeats and with meters outside the grid.
ReqLists == {<<>>} \cup {<<a>> : a \in Meters} \cup {<<a, b>> : a \in Meters, b \in 1..2}

EstRequest(g, ms, t) ==
    [grid_id |-> g,
     historical |-> [e \in DOMAIN ms |->
         [meter_id |-> ms[e],
          measurements |-> <<[timestamp |-> t, v_measured |-> ReqVolt(ms[e])]>>]]]

\* Requests on either grid at the newest stored instant, requests of at most
\* one meter on grid 1 a week later, and a request whose entry has no
\* measurement.
EstPayloads ==
    { EstRequest(g, ms, NewestTimestamp) : g \in GridIds, ms \in ReqLists }
    \cup
    { EstRequest(1, ms, NewestTimestamp + MinutesOfDays(7)) :
        ms \in {l \in ReqLists : Len(l) <= 1} }
    \cup
    { [grid_id |-> 1,
       historical |-> <<[meter_id |-> 1, measurements |-> <<>>]>>] }

NoReq == [op |-> "none"]

---------------------------------------------------------------------------
(* The service *)

InitStore ==
    /\ tables = {}
    /\ grids = {}
    /\ meters = {}
    /\ measurements = <<>>

InitIdle ==
    /\ pc = "idle"
    /\ req = NoReq
    /\ resp = Pending
    /\ frame = NoFrame

InitNoCall ==
    /\ call = NoCall
    /\ ret = Pending

Init == InitStore /\ InitIdle /\ InitNoCall

save_grid_data ==
    /\ pc = "idle"
    /\ \E data \in GridPayloads :
        LET r == SaveGridRun(data)
        IN /\ tables' = tables \cup {"grids", "meters"}
           /\ grids' = r.grids
           /\ meters' = r.meters
           /\ req' = [op |-> "grid", data |-> data]
           /\ resp' = r.out
    /\ pc' = "responded"
    /\ UNCHANGED <<measurements, frame, call, ret>>

save_historical_data ==
    /\ pc = "idle"
    /\ \E data \in HistPayloads :
        LET r == SaveHistoricalRun(data)
        IN /\ tables' = tables \cup {"measurements"}
           /\ measurements' = r.measurements
           /\ req' = [op |-> "historical", data |-> data]
           /\ resp' = r.out
    /\ pc' = "responded"
    /\ UNCHANGED <<grids, meters, frame, call, ret>>

\* The handler creating the tables first, as the saving handlers do.
get_voltage_measurements_init_tables ==
    /\ pc = "idle"
    /\ \E data \in EstPayloads :
        LET r == VoltagesRun(data, "raise")
        IN \E run \in (IF r.out = Err("LinAlgError")
                       THEN {r, VoltagesRun(data, "nan")} ELSE {r}) :
            /\ req' = [op |-> "voltages", data |-> data]
            /\ resp' = run.out
            /\ frame' = run.frame
    /\ pc' = "responded"
    /\ tables' = tables \cup {"grids", "meters", "measurements"}
    /\ UNCHANGED <<grids, meters, measurements, call, ret>>

\* The LAPACK build decides the outcome of a fit over NaN; every other
\* request has one outcome.
get_voltage_measurements ==
    /\ pc = "idle"
    /\ \E data \in EstPayloads :
        LET r == VoltagesRun(data, "raise")
        IN \E run \in (IF r.out = Err("LinAlgError")
                       THEN {r, VoltagesRun(data, "nan")} ELSE {r}) :
            /\ req' = [op |-> "voltages", data |-> data]
            /\ resp' = run.out
            /\ frame' = run.frame
    /\ pc' = "responded"
    /\ UNCHANGED <<tables, grids, meters, measurements, call, ret>>

\* The response is returned to the caller.
Respond ==
    /\ pc = "responded"
    /\ pc' = "idle"
    /\ req' = NoReq
    /\ resp' = Pending
    /\ frame' = NoFrame
    /\ UNCHANGED <<tables, grids, meters, measurements, call, ret>>

Next ==
    \/ save_grid_data
    \/ save_historical_data
    \/ get_voltage_measurements
    \/ Respond

Spec == Init /\ [][Next]_vars

\* The voltages stored for meter m at instant t.
StoredAt(m, t) ==
    {measurements[j].v_measured : j \in {n \in DOMAIN measurements :
        measurements[n].meter_id = m /\ measurements[n].timestamp = t}}

\* The cell of meter m at instant t as the aligner and the lookup report it.
StoredCell(m, t) == IF StoredAt(m, t) = {} THEN None ELSE Num(CHOOSE v \in StoredAt(m, t) : TRUE)

\* C1: the vector of current known-meter voltages handed to the predictor
\* has the length and the meter order of the known rows used at fit time:
\* entry k belongs to the meter of row k of the known matrix, whatever the
\* order of the request and whether or not it names meters outside the grid
\* or repeats a meter.
C1_KnownVectorMatchesRows ==
    (req.op = "voltages" /\ frame.step \in {"extracted", "predicted"}) =>
        /\ Len(frame.included_actual_voltages) = Len(frame.included_ids)
        /\ \A k \in DOMAIN frame.included_ids :
             /\ req.data.historical[k].meter_id = frame.included_ids[k]
             /\ frame.included_actual_voltages[k] = Num(ReqVolt(frame.included_ids[k]))

\* C10: a successful response to a request naming at least one meter holds
\* exactly one prediction for each meter of the grid absent from the request
\* and none for any other meter; the value under meter id m is the dot
\* product built from m's own row of the unknown matrix (the stored series
\* of m), m's own coefficient column (fitted to that row and to m's own
\* lags) and m's own lag values (the stored voltages of m at the lookup
\* instants).
C10_OnePredictionPerAbsentMeter ==
    (req.op = "voltages" /\ resp.st = "ok" /\ req.data.historical # <<>>) =>
        LET data == req.data
            named == {data.historical[e].meter_id : e \in DOMAIN data.historical}
            absent == {row.meter_id : row \in {r \in meters : r.grid_id = data.grid_id}} \ named
            out == resp.val
        IN /\ {out[u].meter_id : u \in DOMAIN out} = absent
           /\ Len(out) = Cardinality(absent)
           /\ absent # {} =>
                LET ts == frame.sorted_timestamps
                    pad == frame.daily_measurements * 7
                    ref == data.historical[1].measurements[1].timestamp
                    beta == frame.beta_matr
                IN \A u \in DOMAIN out :
                     LET m == out[u].meter_id
                         row == frame.excluded_voltages[u]
                         lags == [k \in 1..3 |-> StoredCell(m, ref - MinutesOfDays(LagDays[k]))]
                         x == [k \in 1..Len(beta) |->
                                 IF k <= 3 THEN ToFloat(lags[k])
                                 ELSE frame.included_actual_voltages[k - 3]]
                     IN /\ \A c \in DOMAIN ts : row[c] = StoredCell(m, ts[c])
                        /\ \A k \in 1..3 : frame.excluded_previous_voltages[k][u] = lags[k]
                        /\ \A r \in DOMAIN beta :
                             beta[r][u][1] = "lstsq" =>
                                /\ beta[r][u][2] = r
                                /\ beta[r][u][4] = [t \in 1..(Len(ts) - pad) |-> row[pad + t]]
                                /\ \A t \in 1..(Len(ts) - pad) : \A k \in 1..3 :
                                     beta[r][u][3][t][k] =
                                        row[pad + t - frame.daily_measurements * LagDays[k]]
                        /\ out[u].v_predicted = Dot(x, [r \in DOMAIN beta |-> beta[r][u]])

\* A successful response with the predictions of meters 1 and 3 for a
\* request naming meter 2, both computed from fitted coefficients.
C10_Witness ==
    /\ req.op = "voltages" /\ resp.st = "ok"
    /\ Len(req.data.historical) = 1
    /\ Len(resp.val) = 2
    /\ resp.val[1].meter_id = 1 /\ resp.val[2].meter_id = 3
    /\ resp.val[1].v_predicted[1] = "add"
    /\ resp.val[2].v_predicted[1] = "add"
    /\ resp.val[1].v_predicted # resp.val[2].v_predicted

\* C11: when a step of a voltage-estimation request fails (meter lookup or
\* measurement fetch on a missing table, interval validation, fit, reading
\* the request's measurements, prediction), the response is the failure
\* carrying that step's error; a request that stopped before the prediction
\* never answers with success, and a success that ran the steps holds the
\* prediction of every unknown meter.  The two returns taken before any step
\* can fail (no meter named; no meter stored for the grid) are not failed
\* steps.
C11_FailuresReachCaller ==
    (req.op = "voltages" /\ resp # Pending) =>
        LET data == req.data
            named == {data.historical[e].meter_id : e \in DOMAIN data.historical}
            of_grid == {row.meter_id : row \in {r \in meters : r.grid_id = data.grid_id}}
            early == named = {} \/ ("meters" \in tables /\ of_grid = {})
        IN /\ (frame.step # "predicted" /\ ~early) => resp.st = "err"
           /\ (named # {} /\ "meters" \notin tables) => resp = Err("OperationalError")
           /\ (~early /\ "meters" \in tables /\ "measurements" \notin tables)
                => resp = Err("OperationalError")
           /\ (frame.step = "aligned" /\ Len(frame.sorted_timestamps) < 2)
                => resp.st = "err"
           /\ frame.step = "validated"
                => /\ resp.st = "err"
                   /\ resp \in {beta_pred(frame.included_voltages, frame.excluded_voltages,
                                          frame.daily_measurements, l) : l \in {"raise", "nan"}}
           /\ (frame.step \in {"fitted", "looked_up"})
                => /\ \E e \in DOMAIN data.historical : data.historical[e].measurements = <<>>
                   /\ resp = Err("IndexError")
           /\ frame.step = "extracted"
                => /\ resp.st = "err"
                   /\ resp = v_pred(frame.excluded_previous_voltages,
                                    frame.included_actual_voltages, frame.beta_matr)
           /\ (resp.st = "ok" /\ ~early)
                => /\ frame.step = "predicted"
                   /\ resp.val = [u \in DOMAIN frame.excluded_ids |->
                                    [meter_id |-> frame.excluded_ids[u],
                                     v_predicted |-> frame.v_pred[u]]]
           /\ (resp.st = "ok" /\ early) => resp.val = <<>>

\* A request whose fit failed after a successful interval validation: the
\* response is the fit's error.
C11_Witness ==
    /\ req.op = "voltages"
    /\ frame.step = "validated"
    /\ resp = Err("UFuncTypeError")

---------------------------------------------------------------------------
(* Direct calls of the interval validator *)

MaxTs == 3
MaxTick == 3
MaxDelta == 1500

Ticks == {15 * i : i \in 0..MaxTick}

SeqsUpTo(S, n) == UNION {[1..k -> S] : k \in 0..n}

IntervalCalls ==
    {[fn |-> "validate_interval", timestamps |-> ts] : ts \in SeqsUpTo(Ticks, MaxTs)}
    \cup {[fn |-> "number_daily_meas", delta |-> d] : d \in (-MaxDelta)..MaxDelta}

InitInterval ==
    /\ InitStore /\ InitIdle
    /\ call \in IntervalCalls
    /\ ret = Pending

CallValidateInterval ==
    /\ call.fn = "validate_interval"
    /\ ret = Pending
    /\ ret' = validate_interval(call.timestamps)
    /\ UNCHANGED <<tables, grids, meters, measurements, pc, req, resp, frame, call>>

CallNumberDailyMeas ==
    /\ call.fn = "number_daily_meas"
    /\ ret = Pending
    /\ ret' = number_daily_meas(Num(call.delta))
    /\ UNCHANGED <<tables, grids, meters, measurements, pc, req, resp, frame, call>>

NextInterval == CallValidateInterval \/ CallNumberDailyMeas

SpecInterval == InitInterval /\ [][NextInterval]_vars

\* C2: validate_interval returns a daily sample count only for a sequence
\* of at least 2 timestamps whose consecutive deltas are all equal and are
\* 15 or 30 minutes; with fewer than 2 timestamps it fails
\* (InsufficientDataError), and with unequal deltas or a common delta outside
\* {15, 30} it fails (IntervalInconsistencyError).  The code has no error
\* classes of these names: a failure of any kind is taken for the named one.
C2_ValidateIntervalContract ==
    (call.fn = "validate_interval" /\ ret # Pending) =>
        LET ts == call.timestamps
            uniform == /\ Len(ts) >= 2
                       /\ \A k \in 1..(Len(ts) - 1) : ts[k + 1] - ts[k] = ts[2] - ts[1]
                       /\ (ts[2] - ts[1]) \in {15, 30}
        IN /\ ret.st = "ok" => uniform
           /\ Len(ts) < 2 => ret.st = "err"
           /\ (Len(ts) >= 2 /\ ~uniform) => ret.st = "err"

\* C6: number_daily_meas returns floor(1440 / delta) for every positive
\* delta and never returns a count for delta <= 0, where it fails
\* (InvalidDeltaError; a failure of any kind is taken for it).
C6_DailySampleCount ==
    (call.fn = "number_daily_meas" /\ ret # Pending) =>
        /\ call.delta > 0 => (ret.st = "ok" /\ ret.val = MinutesPerDay \div call.delta)
        /\ call.delta <= 0 => ret.st = "err"

\* The part of C6 the code keeps: the count of a positive delta.
C6_PositiveDeltaFloor ==
    (call.fn = "number_daily_meas" /\ ret # Pending /\ call.delta > 0) =>
        (ret.st = "ok" /\ ret.val = MinutesPerDay \div call.delta)

---------------------------------------------------------------------------
(* Direct calls of the aligner *)

AlignMeters == 2
AlignTicks == 1

AlignCells == (1..AlignMeters) \X {15 * i : i \in 0..AlignTicks}

\* The voltage recorded in a cell; the cell of meter 1 at instant 0 holds 0.
AlignVolt(m, t) == 10 * (m - 1) + t

\* The records of the cells in S as the rows of a query result, in one of
\* three orders: by meter, by timestamp, or by meter descending.
AlignRows(S, order) ==
    LET code(c) == IF order = "time" THEN c[2] * 1000 + c[1] ELSE c[1] * 1000 + c[2]
        meter(n) == IF order = "time" THEN n % 1000 ELSE n \div 1000
        time(n) == IF order = "time" THEN n \div 1000 ELSE n % 1000
        codes == SortedSeq({code(c) : c \in S})
        at(i) == IF order = "reverse" THEN codes[Len(codes) + 1 - i] ELSE codes[i]
    IN [i \in 1..Len(codes) |->
          [meter_id |-> meter(at(i)), timestamp |-> time(at(i)),
           v_measured |-> Num(AlignVolt(meter(at(i)), time(at(i))))]]

AlignIds == SeqsUpTo(1..(AlignMeters + 1), 2)

AlignCalls ==
    {[fn |-> "align", meter_ids |-> ids, rows |-> AlignRows(S, order)] :
        ids \in AlignIds, S \in SUBSET AlignCells, order \in {"meter", "time", "reverse"}}

InitAlign ==
    /\ InitStore /\ InitIdle
    /\ call \in AlignCalls
    /\ ret = Pending

\* state_estimation.py lines 71-74 for one list of ids.
CallAlign ==
    /\ call.fn = "align"
    /\ ret = Pending
    /\ LET organized == organize_measurements_by_meter(call.rows)
       IN ret' = Ok([matrix |-> build_voltage_matrix(call.meter_ids, organized.meter_data,
                                                     organized.sorted_timestamps),
                     sorted_timestamps |-> organized.sorted_timestamps])
    /\ UNCHANGED <<tables, grids, meters, measurements, pc, req, resp, frame, call>>

NextAlign == CallAlign

SpecAlign == InitAlign /\ [][NextAlign]_vars

\* C7: the aligner's matrix has one row per given id, in the caller's order;
\* its columns are the distinct timestamps of the records in ascending order;
\* cell (r, c) is the voltage recorded for ids[r] at timestamps[c] when there
\* is such a record and None otherwise (never zero, never an imputed value).
C7_AlignerMatrix ==
    (call.fn = "align" /\ ret # Pending) =>
        LET ids == call.meter_ids
            rows == call.rows
            ts == ret.val.sorted_timestamps
            M == ret.val.matrix
            recorded(m, t) == {rows[i].v_measured : i \in {j \in DOMAIN rows :
                                  rows[j].meter_id = m /\ rows[j].timestamp = t}}
        IN /\ ret.st = "ok"
           /\ Len(M) = Len(ids)
           /\ Range(ts) = {rows[i].timestamp : i \in DOMAIN rows}
           /\ \A c \in 1..(Len(ts) - 1) : ts[c] < ts[c + 1]
           /\ \A r \in DOMAIN M :
                /\ Len(M[r]) = Len(ts)
                /\ \A c \in DOMAIN ts :
                     IF recorded(ids[r], ts[c]) = {} THEN M[r][c] = None
                     ELSE recorded(ids[r], ts[c]) = {M[r][c]}

\* A matrix whose ids are not in ascending order, with an absent cell and
\* with the recorded voltage 0.
C7_Witness ==
    /\ call.fn = "align" /\ ret # Pending
    /\ call.meter_ids = <<2, 1>>
    /\ Len(ret.val.sorted_timestamps) = 2
    /\ ret.val.matrix[1] = <<None, Num(AlignVolt(2, 15))>>
    /\ ret.val.matrix[2] = <<Num(0), None>>

---------------------------------------------------------------------------
(* Direct calls of the lag lookup and the predictor *)

PredictMeters == 2
MaxKnown == 2
MaxMissing == 2

\* The lookup instants of a reference instant seven days after instant 0.
PredictTimes == [k \in 1..3 |-> MinutesOfDays(7) - MinutesOfDays(LagDays[k])]

PredictVolt(m, k) == 10 * m + k

PredictCells == (1..PredictMeters) \X (1..3)

\* The stored records of the cells in S, by meter and instant.
PredictStore(S) ==
    LET codes == SortedSeq({10 * c[1] + c[2] : c \in S})
    IN [i \in 1..Len(codes) |->
          [meter_id |-> codes[i] \div 10, timestamp |-> PredictTimes[codes[i] % 10],
           v_measured |-> PredictVolt(codes[i] \div 10, codes[i] % 10)]]

\* Lists of excluded meters without repetition, of at most two meters.
PredictIds ==
    {ids \in SeqsUpTo(1..PredictMeters, 2) : \A i, j \in DOMAIN ids : i # j => ids[i] # ids[j]}

\* Coefficient matrices (3 + K) x U of whole numbers.
BetaPatterns == {"zero", "mixed", "column"}

PatternBeta(pattern, K, U) ==
    [r \in 1..(3 + K) |-> [i \in 1..U |->
        Num(CASE pattern = "zero" -> 0
              [] pattern = "mixed" -> (r - 2) * (i + 1)
              [] pattern = "column" -> 100 * i + r)]]

PredictCalls ==
    {[fn |-> "v_pred", excluded_ids |-> ids, actual_volt |-> actual,
      beta |-> PatternBeta(pattern, Len(actual), Len(ids))] :
        ids \in PredictIds,
        actual \in SeqsUpTo({None, Num(3), Num(7)}, MaxKnown),
        pattern \in BetaPatterns}

InitPredict ==
    /\ tables = {"grids", "meters", "measurements"}
    /\ grids = {}
    /\ meters = {}
    /\ measurements \in {PredictStore(PredictCells \ missing) :
                            missing \in {S \in SUBSET PredictCells : Cardinality(S) <= MaxMissing}}
    /\ InitIdle
    /\ call \in PredictCalls
    /\ ret = Pending

\* state_estimation.py lines 86-93 for given excluded ids, known voltages
\* and coefficients.
CallPredict ==
    /\ call.fn = "v_pred"
    /\ ret = Pending
    /\ ret' = v_pred(get_excluded_voltages_at_timestamps(call.excluded_ids, PredictTimes),
                     call.actual_volt, call.beta)
    /\ UNCHANGED <<tables, grids, meters, measurements, pc, req, resp, frame, call>>

NextPredict == CallPredict

SpecPredict == InitPredict /\ [][NextPredict]_vars

\* The voltages stored for meter m at lookup instant k.
StoredLag(m, k) ==
    {measurements[j].v_measured : j \in {n \in DOMAIN measurements :
        measurements[n].meter_id = m /\ measurements[n].timestamp = PredictTimes[k]}}

RECURSIVE SumTo(_, _)
SumTo(f, n) == IF n = 0 THEN 0 ELSE SumTo(f, n - 1) + f[n]

\* C5: when one of the three lag values of unknown meter i is missing in the
\* store, or one of the K current known voltages is unavailable, v_pred
\* completes and prediction i is the unavailable value (NaN): not zero, not
\* a number computed from the other regressors, not an error.
C5_UnavailablePropagates ==
    (call.fn = "v_pred" /\ ret # Pending) =>
        /\ ret.st = "ok"
        /\ Len(ret.val) = Len(call.excluded_ids)
        /\ \A i \in DOMAIN call.excluded_ids :
             ((\E k \in 1..3 : StoredLag(call.excluded_ids[i], k) = {})
                \/ None \in Range(call.actual_volt))
             => ret.val[i] = NaN

\* Two excluded meters, one with a missing lag value and one with all three,
\* and known voltages that are all available: only the first is unavailable.
C5_Witness ==
    /\ call.fn = "v_pred" /\ ret # Pending /\ ret.st = "ok"
    /\ call.excluded_ids = <<2, 1>>
    /\ call.actual_volt = <<Num(3)>>
    /\ StoredLag(2, 2) = {}
    /\ \A k \in 1..3 : StoredLag(1, k) # {}
    /\ ret.val[1] = NaN
    /\ IsNum(ret.val[2])

\* C8: prediction i of v_pred is exactly the dot product of
\* [lag-1d(i), lag-2d(i), lag-7d(i), known-1, ..., known-K] with column i of
\* the coefficient matrix (no clipping), so it is a function of meter i's own
\* lag values and column and of the shared known vector.
C8_DotProduct ==
    (call.fn = "v_pred" /\ ret # Pending) =>
        /\ ret.st = "ok"
        /\ \A i \in DOMAIN call.excluded_ids :
             LET m == call.excluded_ids[i]
                 K == Len(call.actual_volt)
             IN ((\A k \in 1..3 : StoredLag(m, k) # {}) /\ None \notin Range(call.actual_volt))
                => LET x == [k \in 1..(3 + K) |->
                               IF k <= 3 THEN CHOOSE v \in StoredLag(m, k) : TRUE
                               ELSE call.actual_volt[k - 3][2]]
                       terms == [k \in 1..(3 + K) |-> x[k] * call.beta[k][i][2]]
                   IN ret.val[i] = Num(SumTo(terms, 3 + K))

\* Two excluded meters in descending order and two known voltages, every
\* regressor available, with predictions that are negative and differ.
C8_Witness ==
    /\ call.fn = "v_pred" /\ ret # Pending /\ ret.st = "ok"
    /\ call.excluded_ids = <<2, 1>>
    /\ call.actual_volt = <<Num(3), Num(7)>>
    /\ call.beta[1][1] = Num(-2)
    /\ \A m \in 1..2 : \A k \in 1..3 : StoredLag(m, k) # {}
    /\ IsNum(ret.val[1]) /\ IsNum(ret.val[2])
    /\ ret.val[1] # ret.val[2]

---------------------------------------------------------------------------
(* Direct calls of the fitter *)

MaxUnknown == 2
MaxShort == 2

\* Series shorter than a week, and series with training columns after the
\* first 48*7.
FitLens == (1..MaxShort) \cup {FixedDailyMeas * 7 + t : t \in 1..MaxTrain}

SupportedDaily == {48, 96}

FitVolt(row, c) == 1000 * row + c

\* A rows x T matrix; hole makes its first cell None.
FitMatrix(rows, T, base, hole) ==
    [r \in 1..rows |-> [c \in 1..T |->
        IF hole /\ r = 1 /\ c = 1 THEN None ELSE Num(FitVolt(base + r, c))]]

FitCalls ==
    {[fn |-> "beta_pred",
      volt_known |-> FitMatrix(K, T, 0, hole = "known"),
      volt_uknown |-> FitMatrix(U, T, MaxKnown, hole = "unknown"),
      daily_meas |-> daily] :
        K \in 0..MaxKnown, U \in 1..MaxUnknown, T \in FitLens,
        daily \in SupportedDaily, hole \in {"no", "known", "unknown"}}

InitFit ==
    /\ InitStore
    /\ pc = "idle" /\ req = NoReq /\ resp = Pending
    /\ frame = [v_extended |-> <<>>, previous_v_data |-> <<>>, training |-> <<>>]
    /\ call \in FitCalls
    /\ ret = Pending

\* beta_pred; frame keeps its locals v_extended and previous_v_data and the
\* operands of lstsq (empty when the call fails before they are assigned).
CallBetaPred ==
    /\ call.fn = "beta_pred"
    /\ ret = Pending
    /\ \E lapack \in {"raise", "nan"} :
         LET run == BetaPredRun(call.volt_known, call.volt_uknown, call.daily_meas, lapack)
         IN /\ ret' = run.out
            /\ frame' = [v_extended |-> run.v_extended,
                         previous_v_data |-> run.previous_v_data,
                         training |-> run.training]
    /\ UNCHANGED <<tables, grids, meters, measurements, pc, req, resp, call>>

NextFit == CallBetaPred

SpecFit == InitFit /\ [][NextFit]_vars

\* C3: for daily_count 48 and 96 and every unknown matrix with T >= 1
\* columns (and at least one known row, so that the lag builder is reached),
\* the lag builder completes and the padded series is daily_count*7
\* unavailable columns followed by the T original columns in order.
C3_PadFollowsDailyCount ==
    (call.fn = "beta_pred" /\ ret # Pending /\ Len(call.volt_known) >= 1) =>
        LET pad == call.daily_meas * 7
            T == Len(call.volt_uknown[1])
            ext == frame.v_extended
        IN /\ frame.previous_v_data # <<>>
           /\ Len(ext) = Len(call.volt_uknown)
           /\ \A u \in DOMAIN ext :
                /\ Len(ext[u]) = pad + T
                /\ \A c \in 1..pad : ext[u][c] = NaN
                /\ \A j \in 1..T :
                     ext[u][pad + j] = (IF call.volt_uknown[u][j] = None THEN NaN
                                        ELSE call.volt_uknown[u][j])

\* C4: whenever the lag builder completes, the lag channel of offset
\* d in {1, 2, 7} * daily_count holds at (u, j) the unknown matrix value at
\* (u, j - d) when j >= d and the unavailable value when j < d (columns
\* counted from 0); no cell holds a value from a column at or after j.
C4_LagIsShift ==
    (call.fn = "beta_pred" /\ ret # Pending /\ frame.previous_v_data # <<>>) =>
        LET T == Len(call.volt_uknown[1])
            lag == frame.previous_v_data
        IN \A k \in 1..3 : \A u \in DOMAIN call.volt_uknown :
             /\ Len(lag[k][u]) = T
             /\ \A j \in 0..(T - 1) :
                  LET d == call.daily_meas * LagDays[k]
                  IN lag[k][u][j + 1] =
                        (IF j < d \/ call.volt_uknown[u][j - d + 1] = None THEN NaN
                         ELSE call.volt_uknown[u][j - d + 1])

\* C9: a fit whose training window (the columns after the first
\* daily_count*7) has fewer than 3+K columns, zero columns included, does
\* not fail and returns a coefficient matrix of 3+K rows and one column per
\* unknown meter (matrices without unavailable cells, K >= 1).
C9_ShortWindowFit ==
    (/\ call.fn = "beta_pred" /\ ret # Pending
     /\ Len(call.volt_known) >= 1
     /\ ~IsObjectArray(call.volt_known) /\ ~IsObjectArray(call.volt_uknown)
     /\ Len(call.volt_uknown[1]) - call.daily_meas * 7 < 3 + Len(call.volt_known))
    => /\ ret.st = "ok"
       /\ Len(ret.val) = 3 + Len(call.volt_known)
       /\ \A r \in DOMAIN ret.val : Len(ret.val[r]) = Len(call.volt_uknown)

\* C14: whenever the lag builder completes and the unknown matrix has no
\* unavailable cell, meter i is trained on the columns j >= daily_count*7
\* alone, one row per column; row j pairs the target (i, j) with the
\* regressors of column j (the three lags of meter i at j and the known
\* voltages at j), and none of its lag regressors is an unavailable value of
\* the pad.
C14_TrainingColumns ==
    (/\ call.fn = "beta_pred" /\ ret # Pending
     /\ frame.training # <<>>
     /\ ~IsObjectArray(call.volt_uknown))
    => LET T == Len(call.volt_uknown[1])
           pad == call.daily_meas * 7
           n == IF T > pad THEN T - pad ELSE 0
       IN \A i \in DOMAIN call.volt_uknown :
            LET a == frame.training[i].a
                b == frame.training[i].b
            IN /\ Len(a) = n /\ Len(b) = n
               /\ \A t \in 1..n :
                    /\ b[t] = call.volt_uknown[i][pad + t]
                    /\ Len(a[t]) = 3 + Len(call.volt_known)
                    /\ \A k \in 1..3 :
                         /\ a[t][k] # NaN
                         /\ a[t][k] = call.volt_uknown[i][pad + t - call.daily_meas * LagDays[k]]
                    /\ \A k \in DOMAIN call.volt_known :
                         a[t][3 + k] = (IF call.volt_known[k][pad + t] = None THEN NaN
                                        ELSE call.volt_known[k][pad + t])

\* A fit of two unknown meters on two known rows with two training columns
\* after the 48*7 columns of warm-up.
C14_Witness ==
    /\ call.fn = "beta_pred" /\ ret # Pending /\ ret.st = "ok"
    /\ call.daily_meas = 48
    /\ Len(call.volt_uknown) = 2 /\ Len(call.volt_known) = 2
    /\ Len(call.volt_uknown[1]) = FixedDailyMeas * 7 + 2
    /\ Len(frame.training[2].a) = 2
    /\ frame.training[2].b = <<call.volt_uknown[2][FixedDailyMeas * 7 + 1],
                               call.volt_uknown[2][FixedDailyMeas * 7 + 2]>>

---------------------------------------------------------------------------
(* Direct calls of the saving handlers on a populated store *)

SaveMeters == 2

\* The rows of grid g in a store: none, or the grid's row with one of the
\* resolutions and one row per meter of one of the meter sets.
GridStoreOptions(g, resolutions, meter_sets) ==
    {[grids |-> {}, meters |-> {}]}
    \cup {[grids |-> {[grid_id |-> g, resolution |-> r]},
           meters |-> {[meter_id |-> m, grid_id |-> g] : m \in ms}] :
            r \in resolutions, ms \in meter_sets}

SaveCells == {<<m, 0>> : m \in 1..SaveMeters} \cup {<<1, 30>>}

SaveVolt(m, t) == 100 * m + t

\* The stored measurements of the cells in S.
SaveStore(S) ==
    LET codes == SortedSeq({100 * c[1] + c[2] : c \in S})
    IN [i \in 1..Len(codes) |->
          [meter_id |-> codes[i] \div 100, timestamp |-> codes[i] % 100,
           v_measured |-> SaveVolt(codes[i] \div 100, codes[i] % 100)]]

SaveGridCalls ==
    {[fn |-> "save_grid", data |-> [grid_id |-> g, resolution |-> r, meters |-> ms]] :
        g \in GridIds, r \in {15, 30}, ms \in SeqsUpTo(1..SaveMeters, 2)}

\* Entries of one meter with one sample, two samples, or one instant twice.
SaveEntries ==
    {[meter_id |-> m,
      measurements |-> [i \in DOMAIN ts |-> [timestamp |-> ts[i], v_measured |-> 7]]] :
        m \in 1..SaveMeters, ts \in {<<0>>, <<0, 30>>, <<30, 30>>}}

SaveHistoricalCalls ==
    {[fn |-> "save_historical", data |-> [historical |-> h]] : h \in SeqsUpTo(SaveEntries, 2)}

InitSaves ==
    /\ tables = {"grids", "meters", "measurements"}
    /\ \E a \in GridStoreOptions(1, {15, 30}, SUBSET (1..SaveMeters)),
          b \in GridStoreOptions(2, {30}, {{1, 2}}) :
         /\ grids = a.grids \cup b.grids
         /\ meters = a.meters \cup b.meters
    /\ measurements \in {SaveStore(S) : S \in SUBSET SaveCells}
    /\ InitIdle
    /\ call \in SaveGridCalls \cup SaveHistoricalCalls
    /\ ret = Pending

\* save_grid_data (routers/grid.py lines 35-44) on the call's payload.
CallSaveGrid ==
    /\ call.fn = "save_grid"
    /\ ret = Pending
    /\ LET r == SaveGridRun(call.data)
       IN /\ tables' = tables \cup {"grids", "meters"}
          /\ grids' = r.grids
          /\ meters' = r.meters
          /\ ret' = r.out
    /\ UNCHANGED <<measurements, pc, req, resp, frame, call>>

\* save_historical_data (routers/historical.py lines 34-43) on the call's
\* payload.
CallSaveHistorical ==
    /\ call.fn = "save_historical"
    /\ ret = Pending
    /\ LET r == SaveHistoricalRun(call.data)
       IN /\ tables' = tables \cup {"measurements"}
          /\ measurements' = r.measurements
          /\ ret' = r.out
    /\ UNCHANGED <<grids, meters, pc, req, resp, frame, call>>

NextSaves == CallSaveGrid \/ CallSaveHistorical

SpecSaves == InitSaves /\ [][NextSaves]_vars

\* C13: a successful grid save for g leaves as the stored meters of g exactly
\* the meters of its list (one row each; meters of earlier saves that the
\* list omits are gone) and one grids row for g with the save's attributes,
\* and leaves the grid rows and the meters of every other grid, and the
\* measurements, as they were.  By induction the store after any sequence
\* of successful saves holds for each grid the latest save.
C13_GridSaveReplaces ==
    [][(call.fn = "save_grid" /\ ret = Pending /\ ret'.st = "ok") =>
         LET d == call.data
             g == d.grid_id
         IN /\ {x \in meters' : x.grid_id = g} =
                  {[meter_id |-> m, grid_id |-> g] : m \in Range(d.meters)}
            /\ Cardinality({x \in meters' : x.grid_id = g}) = Len(d.meters)
            /\ {x \in grids' : x.grid_id = g} = {[grid_id |-> g, resolution |-> d.resolution]}
            /\ {x \in grids' : x.grid_id # g} = {x \in grids : x.grid_id # g}
            /\ {x \in meters' : x.grid_id # g} = {x \in meters : x.grid_id # g}
            /\ measurements' = measurements]_vars

\* Grid 1 saved again with the single meter 2 and resolution 15, next to a
\* stored grid 2: grid 1 holds meter 2 alone, grid 2 its two meters.
C13_Witness ==
    /\ call.fn = "save_grid" /\ ret # Pending /\ ret.st = "ok"
    /\ call.data = [grid_id |-> 1, resolution |-> 15, meters |-> <<2>>]
    /\ meters = {[meter_id |-> 2, grid_id |-> 1],
                 [meter_id |-> 1, grid_id |-> 2], [meter_id |-> 2, grid_id |-> 2]}
    /\ grids = {[grid_id |-> 1, resolution |-> 15], [grid_id |-> 2, resolution |-> 30]}

\* C15: a grid save or a historical save that fails (a repeated meter id in
\* the list; a (meter, timestamp) pair already stored or repeated in the
\* payload) leaves the rows of grids, meters and measurements exactly as
\* they were before the request.
C15_FailedSaveRollsBack ==
    [][(call.fn \in {"save_grid", "save_historical"} /\ ret = Pending /\ ret'.st = "err") =>
         /\ grids' = grids
         /\ meters' = meters
         /\ measurements' = measurements]_vars

\* A historical save whose first entry could be inserted and whose second
\* entry clashes with a stored row has failed, and the store holds no row of
\* the request.
C15_Witness ==
    /\ call.fn = "save_historical" /\ ret = Err("IntegrityError")
    /\ Len(call.data.historical) = 2
    /\ call.data.historical[1].meter_id = 1
    /\ call.data.historical[2].meter_id = 2
    /\ measurements = SaveStore({<<2, 0>>})

====
